---------------------------- MODULE Spec2Model ----------------------------
(***************************************************************************)
(* Dependency discovery of the default resource interpreter                *)
(* (pkg/resourceinterpreter/defaultinterpreter/dependencies.go) and the    *)
(* proxy header round tripper (pkg/util/proxy/round_trippers.go).          *)
(*                                                                         *)
(* Three specifications share the module:                                  *)
(*   SpecSvc    the pure function getDependentServiceNames on drawn inputs *)
(*   Spec       concurrent invocations of the registered interpreters      *)
(*              against a cluster whose Services may change                *)
(*   SpecProxy  goroutines calling RoundTrip on ProxyHeaderRoundTrippers   *)
(***************************************************************************)
EXTENDS Integers, Sequences, FiniteSets, TLC

VARIABLES
    \* --- SpecSvc: one application of getDependentServiceNames
    podLabels,          \* argument podLabels
    serviceList,        \* argument serviceList
    dependentServices,  \* the returned sets.String
    svcPc,              \* "call" before the application, "return" after it
    \* --- Spec: the engine
    cluster,            \* the Services stored in the cluster (all namespaces)
    updates,            \* number of changes made to the cluster so far
    object,             \* object[w]: the workload handed to invocation w
    pc,                 \* pc[w]: "start", "listing" (blocked in cl.List), "done"
    result,             \* result[w]: what the invocation returned
    listed,             \* listed[w]: the response of the cl.List call of w
    \* --- SpecProxy
    wrappers,           \* wrappers[r]: the ProxyHeaderRoundTripper r
    wrapperInput,       \* wrapperInput[r]: the headers map r was built from
    proxyConnectHeader, \* the shared http.Transport's ProxyConnectHeader
    transportWrites,    \* number of writes to a field of the transport
    gpc,                \* gpc[g]: position of goroutine g inside RoundTrip
    gwrapper,           \* gwrapper[g]: the wrapper g called RoundTrip on
    sent                \* the requests forwarded so far

svcVars == <<podLabels, serviceList, dependentServices, svcPc>>
engineVars == <<cluster, updates, object, pc, result, listed>>
proxyVars == <<wrappers, wrapperInput, proxyConnectHeader, transportWrites,
               gpc, gwrapper, sent>>
vars == <<svcVars, engineVars, proxyVars>>

----------------------------------------------------------------------------
(* Bounds of the model *)

\* longest Service list handed to getDependentServiceNames
MaxServices == 2

\* most Services the cluster stores at a time
MaxClusterServices == 2

\* most reference sites in a drawn pod spec
MaxSites == 2

\* most changes made to the cluster's Services in a run
MaxUpdates == 1

\* longest value string of a proxy headers map
MaxValueLen == 2

----------------------------------------------------------------------------
(* Values *)

\* a Go map[string]string is a function; EmptyMap is the map without keys
EmptyMap == [k \in {} |-> ""]

LabelKeys == {"app", "tier"}

LabelValuesOf(k) == IF k = "app" THEN {"web"} ELSE {"frontend", "backend"}

\* every label set over LabelKeys
LabelSets ==
    UNION {{m \in [D -> {"web", "frontend", "backend"}] :
               \A k \in D : m[k] \in LabelValuesOf(k)} : D \in SUBSET LabelKeys}

\* a Service selector: nil, or a (possibly empty) map
NilSelector == [isNil |-> TRUE, set |-> EmptyMap]

Selectors == {NilSelector} \cup {[isNil |-> FALSE, set |-> m] : m \in LabelSets}

ServiceTypeLoadBalancer == "LoadBalancer"

ServiceTypes == {"ClusterIP", "NodePort", ServiceTypeLoadBalancer}

ServiceNames == {"svc-a", "svc-b"}

ServiceNamespaces == {"ns1", "ns2"}

\* corev1.Service, reduced to the fields the interpreter reads
Services ==
    [name : ServiceNames, namespace : ServiceNamespaces,
     type : ServiceTypes, selector : Selectors]

\* all sequences over S of length at most n
SeqsUpTo(S, n) == UNION {[1..k -> S] : k \in 0..n}

Range(s) == {s[i] : i \in DOMAIN s}

----------------------------------------------------------------------------
(* Service selector matcher *)

\* labels.SelectorFromSet: one equality requirement per pair of the set
SelectorFromSet(ls) == {[key |-> k, value |-> ls[k]] : k \in DOMAIN ls}

\* Selector.Matches: every requirement's key is present with that value
Matches(selector, ls) ==
    \A r \in selector : r.key \in DOMAIN ls /\ ls[r.key] = r.value

\* the mutants of getDependentServiceNames
RECURSIVE getDependentServiceNamesNilMatchesAll(_, _)
getDependentServiceNamesNilMatchesAll(labels, list) ==
    IF list = <<>> THEN {}
    ELSE LET service == Head(list)
             rest == getDependentServiceNamesNilMatchesAll(labels, Tail(list))
         IN  IF service.type = ServiceTypeLoadBalancer THEN rest
             ELSE IF Matches(SelectorFromSet(service.selector.set), labels)
                  THEN rest \cup {service.name}
                  ELSE rest

RECURSIVE getDependentServiceNamesWithLoadBalancer(_, _)
getDependentServiceNamesWithLoadBalancer(labels, list) ==
    IF list = <<>> THEN {}
    ELSE LET service == Head(list)
             rest == getDependentServiceNamesWithLoadBalancer(labels, Tail(list))
         IN  IF service.selector.isNil THEN rest
             ELSE IF Matches(SelectorFromSet(service.selector.set), labels)
                  THEN rest \cup {service.name}
                  ELSE rest

RECURSIVE getDependentServiceNamesFirstOnly(_, _)
getDependentServiceNamesFirstOnly(labels, list) ==
    IF list = <<>> THEN {}
    ELSE LET service == Head(list)
         IN  IF service.type = ServiceTypeLoadBalancer
                THEN getDependentServiceNamesFirstOnly(labels, Tail(list))
             ELSE IF service.selector.isNil
                THEN getDependentServiceNamesFirstOnly(labels, Tail(list))
             ELSE IF Matches(SelectorFromSet(service.selector.set), labels)
                THEN {service.name}
             ELSE getDependentServiceNamesFirstOnly(labels, Tail(list))

\* getDependentServiceNames: the loop over serviceList, front to back
RECURSIVE getDependentServiceNames(_, _)
getDependentServiceNames(labels, list) ==
    IF list = <<>> THEN {}
    ELSE LET service == Head(list)
             rest == getDependentServiceNames(labels, Tail(list))
         IN  IF service.type = ServiceTypeLoadBalancer THEN rest
             ELSE IF service.selector.isNil THEN rest
             ELSE IF Matches(SelectorFromSet(service.selector.set), labels)
                  THEN rest \cup {service.name}
                  ELSE rest

----------------------------------------------------------------------------
(* Errors, references, workload objects *)

\* the nil error
NoError == [type |-> "nil"]

\* the errors the Service list read can fail with
ListErrors == {[type |-> "ListError", reason |-> "timeout"],
               [type |-> "ListError", reason |-> "forbidden"]}

\* configv1alpha1.DependentObjectReference
DependentObjectReference(kind, namespace, name) ==
    [apiVersion |-> "v1", kind |-> kind, namespace |-> namespace, name |-> name]

\* schema.GroupVersionKind
GVK(group, version, kind) == [group |-> group, version |-> version, kind |-> kind]

DeploymentKind == GVK("apps", "v1", "Deployment")
JobKind == GVK("batch", "v1", "Job")
PodKind == GVK("", "v1", "Pod")
DaemonSetKind == GVK("apps", "v1", "DaemonSet")
StatefulSetKind == GVK("apps", "v1", "StatefulSet")

\* kinds a caller may hand over that have no interpreter
OtherKinds == {GVK("apps", "v1", "ReplicaSet"), GVK("apps", "v1beta1", "Deployment")}

\* the fields of a pod spec that name a ConfigMap, and those that name a Secret
ConfigMapFields == {"cm.envFrom", "cm.env", "cm.volume", "cm.projected"}
SecretFields == {"secret.envFrom", "secret.env", "secret.volume",
                 "secret.projected", "secret.imagePullSecrets"}

\* reference sites the drawn pod specs are built from
SiteChoices == {[field |-> "cm.envFrom", name |-> "cfg"],
                [field |-> "cm.volume", name |-> "cfg"],
                [field |-> "secret.env", name |-> "cfg"],
                [field |-> "secret.projected", name |-> "cfg"],
                [field |-> "secret.imagePullSecrets", name |-> "pull"]}

\* the pod spec holding exactly the given reference sites
PodSpecOf(sites) ==
    [f \in ConfigMapFields \cup SecretFields |->
        {s.name : s \in {t \in sites : t.field = f}}]

PodSpecs == {PodSpecOf(sites) :
                sites \in {x \in SUBSET SiteChoices : Cardinality(x) <= MaxSites}}

\* the keys of a set of names in the order `order` of a range statement; Go
\* leaves the order of a range over a map open
MapRange(names, order) ==
    LET Visited(n) == n \in names IN SelectSeq(order, Visited)

PodLabelChoices == {EmptyMap, [k \in {"app"} |-> "web"]}

ControllerLabels == [k \in {"tier"} |-> "backend"]

ObjectNamespaces == {"ns1", ""}

\* unstructured workload objects: a bare Pod carries its labels and spec
\* itself, a controller carries them in spec.template
PodObjects ==
    [gvk : {PodKind}, wellFormed : BOOLEAN, namespace : ObjectNamespaces,
     labels : PodLabelChoices, templateLabels : {EmptyMap}, podSpec : PodSpecs]

ControllerObjects ==
    [gvk : {DeploymentKind, JobKind, DaemonSetKind, StatefulSetKind} \cup OtherKinds,
     wellFormed : BOOLEAN, namespace : ObjectNamespaces,
     labels : {ControllerLabels}, templateLabels : PodLabelChoices,
     podSpec : PodSpecs]

Workloads == PodObjects \cup ControllerObjects

----------------------------------------------------------------------------
(* Collaborators outside dependencies.go *)

\* helper.ConvertToDeployment, ConvertToJob, ConvertToPod, ConvertToDaemonSet,
\* ConvertToStatefulSet: the typed object, or an error for a malformed one
ConvertTo(kind, obj) ==
    IF obj.wellFormed /\ obj.gvk.kind = kind
    THEN [obj |-> obj, err |-> NoError]
    ELSE [obj |-> obj, err |-> [type |-> "ConversionError", kind |-> kind]]

\* the corev1.Pod a typed Pod object is
PodOf(obj) ==
    [namespace |-> obj.namespace, labels |-> obj.labels, spec |-> obj.podSpec]

\* GetPodFromTemplate: a pod with the template's labels and spec in the
\* parent's namespace
GetPodFromTemplate(obj) ==
    [pod |-> [namespace |-> obj.namespace, labels |-> obj.templateLabels,
              spec |-> obj.podSpec],
     err |-> NoError]

\* getConfigMapNames: the names of the ConfigMaps the pod refers to
getConfigMapNames(podObj) == UNION {podObj.spec[f] : f \in ConfigMapFields}

\* getSecretNames: the names of the Secrets the pod refers to
getSecretNames(podObj) == UNION {podObj.spec[f] : f \in SecretFields}

\* client.Client.List with ListOptions{Namespace}: cl is the response the
\* client gives to one call, an error or the stored Services in list order;
\* an empty namespace lists all namespaces
clList(cl, namespace) ==
    LET InNamespace(s) == namespace = "" \/ s.namespace = namespace
    IN  IF cl.err # NoError
        THEN [err |-> cl.err, items |-> <<>>]
        ELSE [err |-> NoError, items |-> SelectSeq(cl.items, InNamespace)]

----------------------------------------------------------------------------
(* dependencies.go *)
(* Every interpreter returns [refs, err, listCalls]: the references, the   *)
(* error and the number of cl.List calls it made.  iter gives the order of *)
(* the three range statements over name sets.                              *)

Failed(err, calls) == [refs |-> <<>>, err |-> err, listCalls |-> calls]

\* a mutant of getServiceDependencies: one reference per matching Service of
\* the list instead of one per name of the set
getServiceDependenciesPerItem(cl, podObj, iter) ==
    LET svcList == clList(cl, podObj.namespace)
        Matching(s) == getDependentServiceNames(podObj.labels, <<s>>) # {}
        visit == SelectSeq(svcList.items, Matching)
    IN  IF svcList.err # NoError
        THEN Failed(svcList.err, 1)
        ELSE [refs |-> [i \in 1..Len(visit) |->
                         DependentObjectReference("Service", podObj.namespace,
                                                  visit[i].name)],
              err |-> NoError,
              listCalls |-> 1]

\* getServiceDependencies
getServiceDependencies(cl, podObj, iter) ==
    LET svcList == clList(cl, podObj.namespace)
    IN  IF svcList.err # NoError
        THEN Failed(svcList.err, 1)
        ELSE LET names == getDependentServiceNames(podObj.labels, svcList.items)
                 visit == MapRange(names, iter.services)
             IN  [refs |-> [i \in 1..Len(visit) |->
                              DependentObjectReference("Service", podObj.namespace,
                                                       visit[i])],
                  err |-> NoError,
                  listCalls |-> 1]

\* a mutant of getDependenciesFromPodTemplate: the Secrets are appended
\* before the ConfigMaps
getDependenciesFromPodTemplateSecretsFirst(cl, podObj, iter) ==
    LET configMaps == MapRange(getConfigMapNames(podObj), iter.configMaps)
        secrets == MapRange(getSecretNames(podObj), iter.secrets)
        configMapRefs ==
            [i \in 1..Len(configMaps) |->
                DependentObjectReference("ConfigMap", podObj.namespace, configMaps[i])]
        secretRefs ==
            [i \in 1..Len(secrets) |->
                DependentObjectReference("Secret", podObj.namespace, secrets[i])]
        serviceRefs == getServiceDependencies(cl, podObj, iter)
    IN  IF serviceRefs.err # NoError
        THEN Failed(serviceRefs.err, serviceRefs.listCalls)
        ELSE [refs |-> secretRefs \o configMapRefs \o serviceRefs.refs,
              err |-> NoError,
              listCalls |-> serviceRefs.listCalls]

\* a mutant of getDependenciesFromPodTemplate: a failed list read returns
\* the ConfigMap and Secret references collected so far with the error
getDependenciesFromPodTemplatePartial(cl, podObj, iter) ==
    LET configMaps == MapRange(getConfigMapNames(podObj), iter.configMaps)
        secrets == MapRange(getSecretNames(podObj), iter.secrets)
        configMapRefs ==
            [i \in 1..Len(configMaps) |->
                DependentObjectReference("ConfigMap", podObj.namespace, configMaps[i])]
        secretRefs ==
            [i \in 1..Len(secrets) |->
                DependentObjectReference("Secret", podObj.namespace, secrets[i])]
        serviceRefs == getServiceDependencies(cl, podObj, iter)
    IN  [refs |-> configMapRefs \o secretRefs \o serviceRefs.refs,
         err |-> serviceRefs.err,
         listCalls |-> serviceRefs.listCalls]

\* getDependenciesFromPodTemplate
getDependenciesFromPodTemplate(cl, podObj, iter) ==
    LET configMaps == MapRange(getConfigMapNames(podObj), iter.configMaps)
        secrets == MapRange(getSecretNames(podObj), iter.secrets)
        configMapRefs ==
            [i \in 1..Len(configMaps) |->
                DependentObjectReference("ConfigMap", podObj.namespace, configMaps[i])]
        secretRefs ==
            [i \in 1..Len(secrets) |->
                DependentObjectReference("Secret", podObj.namespace, secrets[i])]
        serviceRefs == getServiceDependencies(cl, podObj, iter)
    IN  IF serviceRefs.err # NoError
        THEN Failed(serviceRefs.err, serviceRefs.listCalls)
        ELSE [refs |-> configMapRefs \o secretRefs \o serviceRefs.refs,
              err |-> NoError,
              listCalls |-> serviceRefs.listCalls]

\* the body shared by the four controller interpreters
ControllerDependencies(kind, cl, obj, iter) ==
    LET converted == ConvertTo(kind, obj)
    IN  IF converted.err # NoError
        THEN Failed([type |-> "ConvertFailed", kind |-> kind,
                     cause |-> converted.err], 0)
        ELSE LET podObj == GetPodFromTemplate(converted.obj)
             IN  IF podObj.err # NoError
                 THEN Failed(podObj.err, 0)
                 ELSE getDependenciesFromPodTemplate(cl, podObj.pod, iter)

\* a mutant of getDeploymentDependencies: the conversion error is dropped
\* and the interpreter goes on with the object it was given
getDeploymentDependenciesErrDropped(cl, obj, iter) ==
    LET podObj == GetPodFromTemplate(ConvertTo("Deployment", obj).obj)
    IN  IF podObj.err # NoError
        THEN Failed(podObj.err, 0)
        ELSE getDependenciesFromPodTemplate(cl, podObj.pod, iter)

getDeploymentDependencies(cl, obj, iter) ==
    ControllerDependencies("Deployment", cl, obj, iter)

getJobDependencies(cl, obj, iter) ==
    ControllerDependencies("Job", cl, obj, iter)

getPodDependencies(cl, obj, iter) ==
    LET converted == ConvertTo("Pod", obj)
    IN  IF converted.err # NoError
        THEN Failed([type |-> "ConvertFailed", kind |-> "Pod",
                     cause |-> converted.err], 0)
        ELSE getDependenciesFromPodTemplate(cl, PodOf(converted.obj), iter)

getDaemonSetDependencies(cl, obj, iter) ==
    ControllerDependencies("DaemonSet", cl, obj, iter)

getStatefulSetDependencies(cl, obj, iter) ==
    ControllerDependencies("StatefulSet", cl, obj, iter)

\* a mutant of the registry: ReplicaSet is registered too
getAllDefaultDependenciesInterpreterWithReplicaSet ==
    (DeploymentKind :> "getDeploymentDependencies")
    @@ (JobKind :> "getJobDependencies")
    @@ (PodKind :> "getPodDependencies")
    @@ (DaemonSetKind :> "getDaemonSetDependencies")
    @@ (StatefulSetKind :> "getStatefulSetDependencies")
    @@ (GVK("apps", "v1", "ReplicaSet") :> "getDeploymentDependencies")

\* getAllDefaultDependenciesInterpreter: the registry, kind -> interpreter
getAllDefaultDependenciesInterpreter ==
    (DeploymentKind :> "getDeploymentDependencies")
    @@ (JobKind :> "getJobDependencies")
    @@ (PodKind :> "getPodDependencies")
    @@ (DaemonSetKind :> "getDaemonSetDependencies")
    @@ (StatefulSetKind :> "getStatefulSetDependencies")

\* a call of the function value stored in the registry
CallInterpreter(interpreter, cl, obj, iter) ==
    CASE interpreter = "getDeploymentDependencies" ->
            getDeploymentDependencies(cl, obj, iter)
      [] interpreter = "getJobDependencies" ->
            getJobDependencies(cl, obj, iter)
      [] interpreter = "getPodDependencies" ->
            getPodDependencies(cl, obj, iter)
      [] interpreter = "getDaemonSetDependencies" ->
            getDaemonSetDependencies(cl, obj, iter)
      [] interpreter = "getStatefulSetDependencies" ->
            getStatefulSetDependencies(cl, obj, iter)

\* the Dispatcher: look the object's kind up in the registry and run the
\* interpreter found; a kind without one yields the UnsupportedKind signal
GetDependencies(cl, obj, iter) ==
    LET registry == getAllDefaultDependenciesInterpreter
    IN  IF obj.gvk \notin DOMAIN registry
        THEN Failed([type |-> "UnsupportedKind", gvk |-> obj.gvk], 0)
        ELSE CallInterpreter(registry[obj.gvk], cl, obj, iter)

----------------------------------------------------------------------------
(* SpecSvc *)

EngineIdle ==
    /\ cluster = <<>>
    /\ updates = 0
    /\ object = <<>>
    /\ pc = <<>>
    /\ result = <<>>
    /\ listed = <<>>

ProxyIdle ==
    /\ wrappers = <<>>
    /\ wrapperInput = <<>>
    /\ proxyConnectHeader = [isNil |-> TRUE, values |-> EmptyMap]
    /\ transportWrites = 0
    /\ gpc = <<>>
    /\ gwrapper = <<>>
    /\ sent = {}

SvcIdle ==
    /\ podLabels = EmptyMap
    /\ serviceList = <<>>
    /\ dependentServices = {}
    /\ svcPc = "off"

\* the lists a list call can return, over one namespace or over all: no two
\* entries have the same namespace and name
ServiceLists ==
    {l \in SeqsUpTo(Services, MaxServices) :
        \A i, j \in DOMAIN l :
            (l[i].namespace = l[j].namespace /\ l[i].name = l[j].name) => i = j}

InitSvc ==
    /\ podLabels \in LabelSets
    /\ serviceList \in ServiceLists
    /\ dependentServices = {}
    /\ svcPc = "call"
    /\ EngineIdle
    /\ ProxyIdle

CallGetDependentServiceNames ==
    /\ svcPc = "call"
    /\ dependentServices' = getDependentServiceNames(podLabels, serviceList)
    /\ svcPc' = "return"
    /\ UNCHANGED <<podLabels, serviceList, engineVars, proxyVars>>

NextSvc == CallGetDependentServiceNames

SpecSvc == InitSvc /\ [][NextSvc]_vars

----------------------------------------------------------------------------
(* Spec: invocations of the Dispatcher against a changing cluster *)

\* the Services the cluster may store: per (namespace, name) one of three
ClusterServiceChoices ==
    {s \in Services :
        /\ <<s.namespace, s.name>> \in
              {<<"ns1", "svc-a">>, <<"ns1", "svc-b">>, <<"ns2", "svc-a">>}
        /\ <<s.type, s.selector>> \in
              {<<"ClusterIP", [isNil |-> FALSE, set |-> [k \in {"app"} |-> "web"]]>>,
               <<ServiceTypeLoadBalancer,
                 [isNil |-> FALSE, set |-> [k \in {"app"} |-> "web"]]>>,
               <<"ClusterIP", NilSelector>>}}

\* the cluster stores at most one Service per namespace and name
Clusters ==
    {c \in SUBSET ClusterServiceChoices :
        /\ Cardinality(c) <= MaxClusterServices
        /\ \A s, t \in c : s.namespace = t.namespace /\ s.name = t.name => s = t}

\* the orders in which the elements of a set may come: the Services of a
\* list response, the keys of a map under a range statement
Orderings(c) ==
    {o \in [1..Cardinality(c) -> c] : \A i, j \in DOMAIN o : i # j => o[i] # o[j]}

\* the orders the three range statements may take
Iters ==
    [configMaps : Orderings({"cfg"}),
     secrets : Orderings({"cfg", "pull"}),
     services : Orderings(ServiceNames)]

\* the objects of a batch handed to concurrent invocations
BatchWorkloads ==
    {o \in Workloads :
        /\ o.gvk \in {DeploymentKind, PodKind}
        /\ o.namespace = "ns1"
        /\ o.gvk = PodKind => o.labels # EmptyMap
        /\ o.gvk # PodKind => o.templateLabels # EmptyMap
        /\ o.podSpec \in {PodSpecOf({}),
                          PodSpecOf({[field |-> "cm.envFrom", name |-> "cfg"]})}}

NoResult == [refs |-> <<>>, err |-> NoError, listCalls |-> 0]

\* no list call has returned to the invocation
NotListed == [err |-> [type |-> "pending"], items |-> <<>>]

\* Either one invocation on any workload, or a batch of two.  A change of
\* the cluster before the list call of a lone invocation is the same run as
\* one that starts from the changed cluster, and a change after it is not
\* seen, so the cluster changes under batches only.
Init ==
    /\ cluster \in Clusters
    /\ \/ /\ object \in [{"w1"} -> Workloads]
          /\ updates = MaxUpdates
       \/ /\ object \in [{"w1", "w2"} -> BatchWorkloads]
          /\ Cardinality(cluster) <= 1
          /\ updates = 0
    /\ pc = [w \in DOMAIN object |-> "start"]
    /\ result = [w \in DOMAIN object |-> NoResult]
    /\ listed = [w \in DOMAIN object |-> NotListed]
    /\ SvcIdle
    /\ ProxyIdle

\* invocation w runs up to its first blocking call: it returns at once when
\* the interpreter makes no list call, and blocks in cl.List otherwise
Begin(w) ==
    /\ pc[w] = "start"
    /\ LET r == GetDependencies(NotListed, object[w], CHOOSE i \in Iters : TRUE)
       IN  IF r.listCalls = 0
           THEN /\ result' = [result EXCEPT ![w] = r]
                /\ pc' = [pc EXCEPT ![w] = "done"]
           ELSE /\ pc' = [pc EXCEPT ![w] = "listing"]
                /\ UNCHANGED result
    /\ UNCHANGED <<cluster, updates, object, listed, svcVars, proxyVars>>

\* a mutant of StoredServices: the Services an earlier invocation listed are
\* kept and served to the later ones
StoredServicesCached(w) ==
    IF \E v \in DOMAIN pc \ {w} : listed[v].err = NoError
    THEN Range(listed[CHOOSE v \in DOMAIN pc \ {w} : listed[v].err = NoError].items)
    ELSE cluster

\* the Services the list call of w reads: serviceList is a fresh local list
\* that cl.List fills from the cluster as it is when the call is made
StoredServices(w) == cluster

\* the list call of w returns the Services stored now and w runs to its end
ListSucceeds(w) ==
    /\ pc[w] = "listing"
    /\ \E o \in Orderings(StoredServices(w)), iter \in Iters :
          LET cl == [err |-> NoError, items |-> o]
          IN  /\ listed' = [listed EXCEPT ![w] = cl]
              /\ result' = [result EXCEPT ![w] = GetDependencies(cl, object[w], iter)]
    /\ pc' = [pc EXCEPT ![w] = "done"]
    /\ UNCHANGED <<cluster, updates, object, svcVars, proxyVars>>

\* the list call of w fails and w runs to its end
ListFails(w) ==
    /\ pc[w] = "listing"
    /\ \E e \in ListErrors, iter \in Iters :
          LET cl == [err |-> e, items |-> <<>>]
          IN  /\ listed' = [listed EXCEPT ![w] = cl]
              /\ result' = [result EXCEPT ![w] = GetDependencies(cl, object[w], iter)]
    /\ pc' = [pc EXCEPT ![w] = "done"]
    /\ UNCHANGED <<cluster, updates, object, svcVars, proxyVars>>

\* somebody else creates or deletes a Service
ClusterChange ==
    /\ updates < MaxUpdates
    /\ \E s \in ClusterServiceChoices :
          \/ /\ s \in cluster
             /\ cluster' = cluster \ {s}
          \/ /\ cluster \cup {s} \in Clusters \ {cluster}
             /\ cluster' = cluster \cup {s}
    /\ updates' = updates + 1
    /\ UNCHANGED <<object, pc, result, listed, svcVars, proxyVars>>

Next ==
    \/ \E w \in DOMAIN pc : Begin(w)
    \/ \E w \in DOMAIN pc : ListSucceeds(w)
    \/ \E w \in DOMAIN pc : ListFails(w)
    \/ ClusterChange

Spec == Init /\ [][Next]_vars

----------------------------------------------------------------------------
(* round_trippers.go *)
(* A Go string is a sequence of characters, an http.Header a map from a    *)
(* key to a sequence of strings; nil is told apart from the empty header.  *)

HeaderChars == {"a", ","}

HeaderStrings == SeqsUpTo(HeaderChars, MaxValueLen)

HeaderKey == "Proxy-Authorization"

\* the headers maps a wrapper is built from: no key, or the one key
HeaderMaps == {EmptyMap} \cup {[k \in {HeaderKey} |-> v] : v \in HeaderStrings}

NilHeader == [isNil |-> TRUE, values |-> EmptyMap]

\* strings.Split(s, ","): the pieces of s between the commas, n commas
\* giving n + 1 pieces
RECURSIVE Split(_)
Split(s) ==
    IF \A i \in DOMAIN s : s[i] # ","
    THEN <<s>>
    ELSE LET i == CHOOSE k \in DOMAIN s :
                      s[k] = "," /\ \A j \in 1..(k - 1) : s[j] # ","
         IN  <<SubSeq(s, 1, i - 1)>> \o Split(SubSeq(s, i + 1, Len(s)))

\* ParseProxyHeaders
ParseProxyHeaders(headers) ==
    IF Cardinality(DOMAIN headers) = 0
    THEN NilHeader
    ELSE [isNil |-> FALSE,
          values |-> [key \in DOMAIN headers |-> Split(headers[key])]]

\* a transport.WrapperFunc: nil, or one that wraps rt in another round tripper
WrapperFuncs == {"nil", "wrap"}

\* the round trippers handed to the constructed wrapper function: the shared
\* *http.Transport, or a round tripper of another type
RoundTrippers == {"transport", "other"}

\* NewProxyHeaderRoundTripperWrapperConstructor(wt, headers)(rt)
NewProxyHeaderRoundTripperWrapperConstructor(wt, headers, rt) ==
    [proxyHeaders |-> ParseProxyHeaders(headers),
     roundTripper |-> IF wt # "nil" THEN "other" ELSE rt]

WrapperIds == {"r1", "r2"}

Goroutines == {"g1", "g2"}

InitProxy ==
    /\ wrapperInput \in [WrapperIds ->
                            [wt : WrapperFuncs, headers : HeaderMaps, rt : RoundTrippers]]
    /\ wrappers = [r \in WrapperIds |->
                     NewProxyHeaderRoundTripperWrapperConstructor(
                         wrapperInput[r].wt, wrapperInput[r].headers, wrapperInput[r].rt)]
    /\ proxyConnectHeader = NilHeader
    /\ transportWrites = 0
    /\ gpc = [g \in Goroutines |-> "idle"]
    /\ gwrapper = [g \in Goroutines |-> "r1"]
    /\ sent = {}
    /\ SvcIdle
    /\ EngineIdle

\* RoundTrip, the type assertion succeeds: g writes the wrapper's headers to
\* the transport's ProxyConnectHeader
RoundTripSetHeader(g, r) ==
    /\ gpc[g] = "idle"
    /\ wrappers[r].roundTripper = "transport"
    /\ proxyConnectHeader' = wrappers[r].proxyHeaders
    /\ transportWrites' = transportWrites + 1
    /\ gpc' = [gpc EXCEPT ![g] = "forward"]
    /\ gwrapper' = [gwrapper EXCEPT ![g] = r]
    /\ UNCHANGED <<wrappers, wrapperInput, sent, svcVars, engineVars>>

\* RoundTrip, tr.RoundTrip(req): the transport sends the request of g with
\* the ProxyConnectHeader it holds now
RoundTripForward(g) ==
    /\ gpc[g] = "forward"
    /\ sent' = sent \cup {[goroutine |-> g, wrapper |-> gwrapper[g],
                           via |-> "transport",
                           connectHeader |-> proxyConnectHeader]}
    /\ gpc' = [gpc EXCEPT ![g] = "done"]
    /\ UNCHANGED <<wrappers, wrapperInput, proxyConnectHeader, transportWrites,
                   gwrapper, svcVars, engineVars>>

\* RoundTrip, the type assertion fails: the request is delegated
RoundTripDelegate(g, r) ==
    /\ gpc[g] = "idle"
    /\ wrappers[r].roundTripper # "transport"
    /\ sent' = sent \cup {[goroutine |-> g, wrapper |-> r, via |-> "other",
                           connectHeader |-> NilHeader]}
    /\ gpc' = [gpc EXCEPT ![g] = "done"]
    /\ gwrapper' = [gwrapper EXCEPT ![g] = r]
    /\ UNCHANGED <<wrappers, wrapperInput, proxyConnectHeader, transportWrites,
                   svcVars, engineVars>>

NextProxy ==
    \/ \E g \in Goroutines, r \in WrapperIds : RoundTripSetHeader(g, r)
    \/ \E g \in Goroutines : RoundTripForward(g)
    \/ \E g \in Goroutines, r \in WrapperIds : RoundTripDelegate(g, r)

SpecProxy == InitProxy /\ [][NextProxy]_vars

----------------------------------------------------------------------------
(* Properties of getDependentServiceNames, under SpecSvc *)

\* every (key, value) pair of the selector set is among the labels
PairsPresent(set, ls) ==
    \A k \in DOMAIN set : k \in DOMAIN ls /\ ls[k] = set[k]

ListedServices == Range(serviceList)

\* C1: a Service with a nil selector never brings its name into the result:
\* every returned name is the name of a listed Service whose selector is not
\* nil and has all its pairs among the pod labels.
C1_NilSelectorNeverIncluded ==
    svcPc = "return" =>
        \A n \in dependentServices :
            \E s \in ListedServices :
                s.name = n /\ ~s.selector.isNil
                /\ PairsPresent(s.selector.set, podLabels)

\* a nil-selector Service that is no LoadBalancer is left out of a result
\* that holds another Service, for a pod with labels and for one without
C1_Witness ==
    /\ svcPc = "return"
    /\ \E s, t \in ListedServices :
          /\ s.selector.isNil /\ s.type # ServiceTypeLoadBalancer
          /\ s.name \notin dependentServices
          /\ t.name \in dependentServices

\* C2: a LoadBalancer Service never brings its name into the result: every
\* returned name is the name of a listed Service of another type whose
\* selector pairs are all among the pod labels.
C2_LoadBalancerExcluded ==
    svcPc = "return" =>
        \A n \in dependentServices :
            \E s \in ListedServices :
                s.name = n /\ s.type # ServiceTypeLoadBalancer
                /\ PairsPresent(s.selector.set, podLabels)

\* a LoadBalancer Service whose non-empty selector matches is left out
C2_Witness ==
    /\ svcPc = "return"
    /\ \E s \in ListedServices :
          /\ s.type = ServiceTypeLoadBalancer
          /\ ~s.selector.isNil /\ DOMAIN s.selector.set # {}
          /\ PairsPresent(s.selector.set, podLabels)
          /\ s.name \notin dependentServices

\* C3 as stated: a Service that is no LoadBalancer and has a selector has
\* its name in the result exactly when its own selector pairs are all among
\* the pod labels.
C3_OwnSelectorDecides ==
    svcPc = "return" =>
        \A s \in ListedServices :
            (s.type # ServiceTypeLoadBalancer /\ ~s.selector.isNil) =>
                (s.name \in dependentServices
                    <=> PairsPresent(s.selector.set, podLabels))

\* C3 amended: the result is a set of names, so such a Service has its name
\* in the result exactly when some listed Service of that name that is no
\* LoadBalancer and has a selector has all its pairs among the pod labels.
C3_SomeServiceOfTheNameDecides ==
    svcPc = "return" =>
        dependentServices =
            {s.name : s \in {t \in ListedServices :
                                /\ t.type # ServiceTypeLoadBalancer
                                /\ ~t.selector.isNil
                                /\ PairsPresent(t.selector.set, podLabels)}}

\* two Services of different names both match, one by an empty selector, the
\* other by a selector that leaves a pod label unmentioned
C3_Witness ==
    /\ svcPc = "return"
    /\ dependentServices = ServiceNames
    /\ \E s, t \in ListedServices :
          /\ s.name # t.name
          /\ ~s.selector.isNil /\ DOMAIN s.selector.set = {}
          /\ DOMAIN t.selector.set # {}
          /\ DOMAIN t.selector.set # DOMAIN podLabels

----------------------------------------------------------------------------
(* Properties of the interpreters, under Spec *)

Invocations == DOMAIN pc

Done(w) == pc[w] = "done"

Succeeded(w) == Done(w) /\ result[w].err = NoError

Registered(obj) ==
    obj.gvk \in {DeploymentKind, JobKind, PodKind, DaemonSetKind, StatefulSetKind}

\* the labels of the pod a workload stands for
PodLabelsOf(obj) == IF obj.gvk = PodKind THEN obj.labels ELSE obj.templateLabels

\* the references a workload has when the list call returned `items`
ExpectedRefs(obj, items) ==
    {DependentObjectReference("ConfigMap", obj.namespace, n) :
        n \in UNION {obj.podSpec[f] : f \in ConfigMapFields}}
    \cup {DependentObjectReference("Secret", obj.namespace, n) :
            n \in UNION {obj.podSpec[f] : f \in SecretFields}}
    \cup {DependentObjectReference("Service", obj.namespace, s.name) :
            s \in {t \in items :
                      /\ obj.namespace \in {"", t.namespace}
                      /\ t.type # ServiceTypeLoadBalancer
                      /\ ~t.selector.isNil
                      /\ PairsPresent(t.selector.set, PodLabelsOf(obj))}}

KindRank(kind) ==
    CASE kind = "ConfigMap" -> 1 [] kind = "Secret" -> 2 [] kind = "Service" -> 3
      [] OTHER -> 0

RefsOfKind(w, kind) == {i \in DOMAIN result[w].refs : result[w].refs[i].kind = kind}

\* C4: a returned list holds at most one reference per (kind, name,
\* namespace).
C4_NoDuplicateReference ==
    \A w \in Invocations :
        Done(w) =>
            \A i, j \in DOMAIN result[w].refs :
                i # j =>
                    <<result[w].refs[i].kind, result[w].refs[i].name,
                      result[w].refs[i].namespace>>
                    # <<result[w].refs[j].kind, result[w].refs[j].name,
                        result[w].refs[j].namespace>>

\* a ConfigMap named at two sites and a Service name listed twice, both
\* matching, each give one reference
C4_Witness ==
    \E w \in Invocations :
        /\ Succeeded(w)
        /\ \E f, g \in ConfigMapFields :
              f # g /\ "cfg" \in object[w].podSpec[f] /\ "cfg" \in object[w].podSpec[g]
        /\ Cardinality(RefsOfKind(w, "ConfigMap")) = 1
        /\ \E i, j \in DOMAIN listed[w].items :
              /\ i # j
              /\ listed[w].items[i].name = listed[w].items[j].name
              /\ \A k \in {i, j} :
                    /\ listed[w].items[k].type # ServiceTypeLoadBalancer
                    /\ ~listed[w].items[k].selector.isNil
                    /\ PairsPresent(listed[w].items[k].selector.set,
                                    PodLabelsOf(object[w]))
        /\ Cardinality(RefsOfKind(w, "Service")) = 1

\* C5: a successful result lists ConfigMaps, then Secrets, then Services, and
\* every entry has apiVersion v1, one of the three kinds and the namespace of
\* the pod.
C5_GroupedByKind ==
    \A w \in Invocations :
        Succeeded(w) =>
            /\ \A i, j \in DOMAIN result[w].refs :
                  i < j => KindRank(result[w].refs[i].kind)
                              <= KindRank(result[w].refs[j].kind)
            /\ \A i \in DOMAIN result[w].refs :
                  /\ result[w].refs[i].apiVersion = "v1"
                  /\ result[w].refs[i].kind \in {"ConfigMap", "Secret", "Service"}
                  /\ result[w].refs[i].namespace = object[w].namespace

\* a result with a ConfigMap, a Secret and a Service
C5_Witness ==
    \E w \in Invocations :
        /\ Succeeded(w)
        /\ RefsOfKind(w, "ConfigMap") # {}
        /\ RefsOfKind(w, "Secret") # {}
        /\ RefsOfKind(w, "Service") # {}

\* C6: when the Service list read fails the interpreter returns that error
\* itself and no reference, after exactly one list call; no invocation makes
\* more than one list call.
C6_ListErrorPropagated ==
    \A w \in Invocations :
        /\ result[w].listCalls <= 1
        /\ (Done(w) /\ listed[w].err \in ListErrors) =>
              /\ result[w].err = listed[w].err
              /\ result[w].refs = <<>>
              /\ result[w].listCalls = 1

\* the read failed for a pod that names a ConfigMap and a Secret
C6_Witness ==
    \E w \in Invocations :
        /\ Done(w)
        /\ listed[w].err \in ListErrors
        /\ object[w].podSpec["cm.envFrom"] # {}
        /\ object[w].podSpec["secret.env"] # {}
        /\ result[w].err = listed[w].err

\* C7: the registry holds interpreters for Deployment, Job, Pod, DaemonSet
\* and StatefulSet and for nothing else, and the Dispatcher answers a kind
\* outside the registry, and only such a kind, with UnsupportedKind, without
\* references and without a list call.
C7_UnsupportedKind ==
    /\ {k.kind : k \in DOMAIN getAllDefaultDependenciesInterpreter}
          = {"Deployment", "Job", "Pod", "DaemonSet", "StatefulSet"}
    /\ Cardinality(DOMAIN getAllDefaultDependenciesInterpreter) = 5
    /\ \A w \in Invocations :
          Done(w) =>
              IF Registered(object[w])
              THEN result[w].err.type # "UnsupportedKind"
              ELSE /\ result[w].err.type = "UnsupportedKind"
                   /\ result[w].refs = <<>>
                   /\ result[w].listCalls = 0

\* a ReplicaSet was handed over and answered with UnsupportedKind
C7_Witness ==
    \E w \in Invocations :
        /\ Done(w)
        /\ object[w].gvk.kind = "ReplicaSet"
        /\ result[w].err.type = "UnsupportedKind"

\* C8: an object that cannot be converted gets an error, no reference and no
\* list call, and every other object of the batch gets the result its own
\* object and its own list call give.
C8_ConversionFailureIsolated ==
    \A w \in Invocations :
        Done(w) =>
            IF Registered(object[w]) /\ ~object[w].wellFormed
            THEN /\ result[w].err.type = "ConvertFailed"
                 /\ result[w].refs = <<>>
                 /\ result[w].listCalls = 0
                 /\ listed[w] = NotListed
            ELSE (Registered(object[w]) /\ listed[w].err = NoError) =>
                    /\ result[w].err = NoError
                    /\ Range(result[w].refs)
                          = ExpectedRefs(object[w], Range(listed[w].items))

\* in a batch of two, the malformed object failed, before or after the other,
\* which got its references
C8_Witness ==
    /\ Invocations = {"w1", "w2"}
    /\ \E w, v \in Invocations :
          /\ ~object[w].wellFormed /\ Done(w)
          /\ result[w].err.type = "ConvertFailed"
          /\ object[v].wellFormed /\ Succeeded(v)
          /\ result[v].refs # <<>>

\* C9: an invocation that returns successfully returns, as a set, the
\* references of its own object against the Services stored at its own list
\* call, so two invocations for equal objects that listed the same Services
\* return the same set.
C9_NoSharedState ==
    [][/\ \A w \in Invocations :
             (pc[w] = "listing" /\ pc'[w] = "done" /\ result'[w].err = NoError) =>
                 Range(result'[w].refs) = ExpectedRefs(object[w], cluster)
       /\ \A w, v \in Invocations :
             (/\ pc'[w] = "done" /\ pc'[v] = "done"
              /\ result'[w].err = NoError /\ result'[v].err = NoError
              /\ object[w] = object[v]
              /\ Range(listed'[w].items) = Range(listed'[v].items)) =>
                 Range(result'[w].refs) = Range(result'[v].refs)]_vars

\* two invocations for equal objects listed the same two Services after the
\* cluster changed, and returned the same references in different orders
C9_Witness ==
    /\ Invocations = {"w1", "w2"}
    /\ updates > 0
    /\ object["w1"] = object["w2"]
    /\ Succeeded("w1") /\ Succeeded("w2")
    /\ Range(listed["w1"].items) = Range(listed["w2"].items)
    /\ Cardinality(RefsOfKind("w1", "Service")) = 2
    /\ result["w1"].refs # result["w2"].refs
    /\ Range(result["w1"].refs) = Range(result["w2"].refs)

----------------------------------------------------------------------------
(* Properties of the round tripper, under SpecProxy *)

\* C10: a request the transport sends for a wrapper is sent while the
\* transport's ProxyConnectHeader is the header parsed from that wrapper's
\* headers map, and the transport's field is written only by calls on
\* wrappers over the transport, once each.
C10_RequestSentWithOwnHeaders ==
    /\ \A m \in sent :
          m.via = "transport" =>
              m.connectHeader = ParseProxyHeaders(wrapperInput[m.wrapper].headers)
    /\ transportWrites =
          Cardinality({g \in Goroutines :
                          /\ gpc[g] # "idle"
                          /\ wrappers[gwrapper[g]].roundTripper = "transport"})

=============================================================================
